---- MODULE Spec2Model ----
(***************************************************************************)
(* Model of turing/turing.py: the TuringMachine registry (states,          *)
(* transitions, soft deletion, name reuse, initial state).                 *)
(*                                                                         *)
(* Python objects are modelled by identity: stateObj[o] is the State       *)
(* instance with identity o, transObj[t] the Transition instance with      *)
(* identity t.  The registry's lists hold identities, as Python lists hold *)
(* references.  A Python str is a sequence of one-character strings, so    *)
(* that f-string formatting and int() parsing are computed, not assumed.   *)
(***************************************************************************)
EXTENDS Integers, Sequences, FiniteSets, TLC

\* ---------------------------------------------------------------- bounds
\* State and Transition instances that are ever constructed, by add_state,
\* by add_transition and by the caller
MaxObjects == 2
\* State instances that are ever constructed where only add_state and
\* delete_state are called
MaxNamedStates == 3
\* how far from offset 0 the tape's pointer moves and the tape is written
MaxOffset == 1

\* ------------------------------------------------------------- variables
VARIABLES
    stateObj,                  \* every State instance: identity -> fields
    transObj,                  \* every Transition instance: identity -> fields
    states,                    \* TuringMachine.__states
    transitions,               \* TuringMachine.__transitions
    alphabets,                 \* TuringMachine.__alphabets
    empty_alphabet,            \* TuringMachine.__empty_alphabet
    head,                      \* TuringMachine.__head
    state_lazy_deletion,       \* TuringMachine.__state_lazy_deletion
    transition_lazy_deletion,  \* TuringMachine.__transition_lazy_deletion
    has_initial,               \* TuringMachine.__has_initial
    result,                    \* the last call: operation, arguments, outcome
    positive_list,             \* Tape.positive_list
    negative_list,             \* Tape.negative_list
    pointer,                   \* Tape.__pointer
    written,                   \* the offsets of the tape written so far
    tape_result                \* the last call of the tape

registry == <<stateObj, transObj, states, transitions, alphabets,
              empty_alphabet, head, state_lazy_deletion,
              transition_lazy_deletion, has_initial>>

vars == <<stateObj, transObj, states, transitions, alphabets,
          empty_alphabet, head, state_lazy_deletion,
          transition_lazy_deletion, has_initial, result,
          positive_list, negative_list, pointer, written, tape_result>>

\* the tape, which the registry never touches
tape == <<positive_list, negative_list, pointer, written, tape_result>>

\* Python's None, as an object identity and as a symbol argument
None == 0
NoneSym == "None"

\* ------------------------------------------------------- strings, int()
Digits == <<"0", "1", "2", "3", "4", "5", "6", "7", "8", "9">>

IsDigit(c) == \E d \in 1..10 : Digits[d] = c

DigitVal(c) == (CHOOSE d \in 1..10 : Digits[d] = c) - 1

RECURSIVE str(_)
\* str(n) / f"{n}" for an int n: its decimal digits
str(n) ==
    IF n < 0 THEN <<"-">> \o str(-n)
    ELSE IF n < 10 THEN <<Digits[n + 1]>>
    ELSE str(n \div 10) \o <<Digits[(n % 10) + 1]>>

RECURSIVE DigitsValue(_)
DigitsValue(s) ==
    IF s = <<>> THEN 0
    ELSE DigitsValue(SubSeq(s, 1, Len(s) - 1)) * 10 + DigitVal(s[Len(s)])

\* int(s) for a str s: an optional sign and a non-empty run of digits;
\* anything else raises ValueError (ok = FALSE).  The inputs of this model
\* contain no whitespace and no underscore, which int() would also accept.
int(s) ==
    LET signed == s # <<>> /\ s[1] \in {"-", "+"}
        body   == IF signed THEN Tail(s) ELSE s
        ok     == body # <<>> /\ \A k \in 1..Len(body) : IsDigit(body[k])
    IN  [ok  |-> ok,
         val |-> IF ~ok THEN 0
                 ELSE IF signed /\ s[1] = "-" THEN 0 - DigitsValue(body)
                 ELSE DigitsValue(body)]

\* s.startswith(c) for a one-character prefix c
startswith(s, c) == s # <<>> /\ s[1] = c

\* x in lst, for a list of object identities
Contains(lst, x) == \E k \in 1..Len(lst) : lst[k] = x

\* ------------------------------------------------------------- selectors
\* An argument of a registry call, tagged with its Python type.
StrSel(s)   == [kind |-> "str", s |-> s, i |-> 0]
IntSel(i)   == [kind |-> "int", s |-> <<>>, i |-> i]
StateSel(o) == [kind |-> "State", s |-> <<>>, i |-> o]
TransitionSel(t) == [kind |-> "Transition", s |-> <<>>, i |-> t]
\* the machine instance itself: neither str, int, State nor Transition
MachineSel  == [kind |-> "TuringMachine", s |-> <<>>, i |-> 0]
NoSel       == [kind |-> "none", s |-> <<>>, i |-> 0]

\* ---------------------------------------------------------------- objects
\* State.__init__
State(name, is_final, is_initial) ==
    [name |-> name, is_final |-> is_final, is_initial |-> is_initial,
     lazy_deleted |-> FALSE, transitions |-> <<>>]

\* Transition.__init__
Transition(name, read, write, move, source_state, destination_state) ==
    [name |-> name, read |-> read, write |-> write, move |-> move,
     source_state |-> source_state, destination_state |-> destination_state,
     lazy_deleted |-> FALSE]

\* Direction enum values
Direction == {"L", "R", "S"}

\* outcome of a call: normal return of an object identity, or an exception
Return(o) == [outcome |-> "ok", ret |-> o]
Raise(e)  == [outcome |-> e, ret |-> None]

Call(op, sel, sel2, read, write, r) ==
    [op |-> op, sel |-> sel, sel2 |-> sel2, read |-> read, write |-> write,
     outcome |-> r.outcome, ret |-> r.ret]

\* ------------------------------------------------------------- TuringMachine
\* __generate_state_name taking the entry freed last: pop() for pop(0)
generate_state_name_last_freed ==
    IF Len(states) > 0
    THEN IF state_lazy_deletion = <<>>
         THEN [name |-> <<"q">> \o str(Len(states)),
               pool |-> state_lazy_deletion]
         ELSE [name |-> <<"q">>
                          \o state_lazy_deletion[Len(state_lazy_deletion)],
               pool |-> SubSeq(state_lazy_deletion, 1,
                               Len(state_lazy_deletion) - 1)]
    ELSE [name |-> <<"q", "0">>, pool |-> state_lazy_deletion]

\* __generate_state_name reading the front entry without popping it
generate_state_name_keeps_entry ==
    IF Len(states) > 0
    THEN IF state_lazy_deletion = <<>>
         THEN [name |-> <<"q">> \o str(Len(states)),
               pool |-> state_lazy_deletion]
         ELSE [name |-> <<"q">> \o Head(state_lazy_deletion),
               pool |-> state_lazy_deletion]
    ELSE [name |-> <<"q", "0">>, pool |-> state_lazy_deletion]

\* TuringMachine.__generate_state_name: the name, and the pool afterwards
generate_state_name ==
    IF Len(states) > 0
    THEN IF state_lazy_deletion = <<>>
         THEN [name |-> <<"q">> \o str(Len(states)),
               pool |-> state_lazy_deletion]
         ELSE [name |-> <<"q">> \o Head(state_lazy_deletion),
               pool |-> Tail(state_lazy_deletion)]
    ELSE [name |-> <<"q", "0">>, pool |-> state_lazy_deletion]

\* TuringMachine.__generate_transition_name
generate_transition_name ==
    IF Len(transitions) > 0
    THEN IF transition_lazy_deletion = <<>>
         THEN [name |-> <<"t">> \o str(Len(transitions)),
               pool |-> transition_lazy_deletion]
         ELSE [name |-> <<"t">> \o Head(transition_lazy_deletion),
               pool |-> Tail(transition_lazy_deletion)]
    ELSE [name |-> <<"t", "0">>, pool |-> transition_lazy_deletion]

\* state_at raising the not-found error for a negative index
state_at_negative_not_found(state_index) ==
    IF state_index < 0 THEN Raise("AttributeError")
    ELSE IF state_index > Len(states) - 1 THEN Raise("AttributeError")
    ELSE IF stateObj[states[state_index + 1]].lazy_deleted
         THEN Raise("AttributeError")
         ELSE Return(states[state_index + 1])

\* get_state, after the index is known: range checks and the deleted flag
state_at(state_index) ==
    IF state_index < 0 THEN Raise("IndexError")
    ELSE IF state_index > Len(states) - 1 THEN Raise("AttributeError")
    ELSE IF stateObj[states[state_index + 1]].lazy_deleted
         THEN Raise("AttributeError")
         ELSE Return(states[state_index + 1])

\* TuringMachine.get_state
get_state(state) ==
    IF state.kind = "str"
    THEN IF ~startswith(state.s, "q") THEN Raise("ValueError")
         ELSE IF ~int(Tail(state.s)).ok THEN Raise("ValueError")
         ELSE state_at(int(Tail(state.s)).val)
    ELSE IF state.kind = "int" THEN state_at(state.i)
    \* neither branch binds target_state: the return statement raises
    ELSE Raise("UnboundLocalError")

\* get_transition, after the index is known
transition_at(transition_index) ==
    IF transition_index < 0 THEN Raise("IndexError")
    ELSE IF transition_index > Len(transitions) - 1
         THEN Raise("AttributeError")
    ELSE IF transObj[transitions[transition_index + 1]].lazy_deleted
         THEN Raise("AttributeError")
         ELSE Return(transitions[transition_index + 1])

\* TuringMachine.get_transition (the prefix test of the code is on "q")
get_transition(transition) ==
    IF transition.kind = "str"
    THEN IF ~startswith(transition.s, "q") THEN Raise("ValueError")
         ELSE IF ~int(Tail(transition.s)).ok THEN Raise("ValueError")
         ELSE transition_at(int(Tail(transition.s)).val)
    ELSE IF transition.kind = "int" THEN transition_at(transition.i)
    ELSE Raise("UnboundLocalError")

\* delete_state, lines 252-261: the state the selector denotes
delete_state_target(state) ==
    IF state.kind \in {"str", "int"} THEN get_state(state)
    ELSE IF state.kind = "State"
    THEN IF ~Contains(states, state.i) \/ stateObj[state.i].lazy_deleted
         THEN Raise("AttributeError")
         ELSE Return(state.i)
    ELSE Raise("TypeError")

\* initial_state setter, lines 274-283: the state the value denotes
initial_state_target(value) ==
    IF value.kind \in {"str", "int"} THEN get_state(value)
    ELSE IF value.kind = "State"
    THEN IF ~Contains(states, value.i) \/ stateObj[value.i].lazy_deleted
         THEN Raise("AttributeError")
         ELSE Return(value.i)
    ELSE Raise("TypeError")

\* initial_state getter
initial_state == head

\* [x.name for x in lst if x.lazy_deleted is False]
RECURSIVE names_if_not_deleted(_, _)
names_if_not_deleted(lst, obj) ==
    IF lst = <<>> THEN <<>>
    ELSE (IF obj[Head(lst)].lazy_deleted = FALSE
          THEN <<obj[Head(lst)].name>> ELSE <<>>)
         \o names_if_not_deleted(Tail(lst), obj)

\* state_names without the filter on the deleted flag
state_names_unfiltered == [k \in 1..Len(states) |-> stateObj[states[k]].name]

\* TuringMachine.state_names
state_names == names_if_not_deleted(states, stateObj)

\* TuringMachine.transition_names
transition_names == names_if_not_deleted(transitions, transObj)

\* ------------------------------------------------------------------ inputs
q0 == <<"q", "0">>
q1 == <<"q", "1">>
t0 == <<"t", "0">>
\* the name given to the State the caller constructs itself
q69 == <<"q", "6", "9">>

NameInputs == {q0, q1, <<"q", "-", "1">>, <<"q", "X">>, <<"a", "s", "d", "f">>}

StateNames == {stateObj[o].name : o \in 1..Len(stateObj)}
TransitionNames == {transObj[t].name : t \in 1..Len(transObj)}

\* selectors given to get_state, delete_state and the initial_state setter
StateSelectors ==
    {StrSel(n) : n \in NameInputs \cup StateNames}
    \cup {IntSel(i) : i \in -1..(MaxObjects - 1)}
    \cup {StateSel(o) : o \in 1..Len(stateObj)}
    \cup {MachineSel}

\* the fewer state selectors used where transitions are explored
FewStateSelectors ==
    {IntSel(0), MachineSel}
    \cup {StateSel(o) : o \in 1..Len(stateObj)}

\* selectors given to get_transition and delete_transition
TransitionSelectors ==
    {StrSel(n) : n \in {t0, q0} \cup TransitionNames}
    \cup {IntSel(i) : i \in -1..(MaxObjects - 1)}
    \cup {TransitionSel(t) : t \in 1..Len(transObj)}
    \cup {MachineSel}

\* endpoints given to add_transition
EndpointSelectors ==
    {StrSel(q0), IntSel(0), MachineSel}
    \cup {StateSel(o) : o \in 1..Len(stateObj)}

\* (read, write) arguments of add_transition: defaults, a symbol of the
\* alphabet, a symbol outside it
SymbolInputs ==
    {<<NoneSym, NoneSym>>, <<"a", NoneSym>>, <<"z", NoneSym>>, <<NoneSym, "z">>,
     <<"~", "a">>}
\* move arguments: a Direction, and a value that is none
MoveInputs == {"R", "up"}

\* argument lists of add_transition: every pair of endpoints with a valid
\* rest, and every (read, write, move) with one valid pair of endpoints
AddTransitionInputs ==
    {<<s, IntSel(0), "a", NoneSym, "R">> : s \in EndpointSelectors}
    \cup {<<IntSel(0), d, "a", NoneSym, "R">> : d \in EndpointSelectors}
    \cup {<<StateSel(s), StateSel(s), "a", NoneSym, "R">> :
              s \in 1..Len(stateObj)}
    \cup {<<IntSel(0), IntSel(0), y[1], y[2], m>> :
              y \in SymbolInputs, m \in MoveInputs}

\* (is_final, is_initial) arguments of add_state
FlagInputs == {<<FALSE, FALSE>>, <<TRUE, TRUE>>}
BoolSel(b) == [kind |-> "bool", s |-> <<>>, i |-> IF b THEN 1 ELSE 0]

\* ----------------------------------------------------------------- actions
\* Tape("~"): Tape.__init__
TapeInit ==
    /\ positive_list = <<>>
    /\ negative_list = <<>>
    /\ pointer = 0
    /\ written = {}
    /\ tape_result = [op |-> "init", i |-> 0, v |-> NoneSym,
                      outcome |-> "ok", ret |-> NoneSym]

\* the alphabets argument of the constructor: "a"
alphabets_argument == {"a"}

\* TuringMachine.__init__(alphabets_argument, blank), no instance built yet
TuringMachineInit(blank) ==
    /\ stateObj = <<>>
    /\ transObj = <<>>
    /\ states = <<>>
    /\ transitions = <<>>
    /\ empty_alphabet = blank
    /\ alphabets = alphabets_argument \cup {empty_alphabet}
    /\ head = None
    /\ state_lazy_deletion = <<>>
    /\ transition_lazy_deletion = <<>>
    /\ has_initial = FALSE
    /\ result = Call("init", NoSel, NoSel, NoneSym, NoneSym, Return(None))

\* TuringMachine("a"): __init__ with the default empty_alphabet; Tape("~")
Init ==
    /\ TapeInit
    /\ TuringMachineInit("~")

\* the empty_alphabet argument: the default, and another symbol
BlankInputs == {"~", "_"}

\* TuringMachine("a") or TuringMachine("a", "_")
InitAnyBlank ==
    /\ TapeInit
    /\ \E blank \in BlankInputs : TuringMachineInit(blank)

\* the caller constructs a State of its own: State("q69")
ConstructState ==
    /\ Len(stateObj) + Len(transObj) < MaxObjects
    /\ \A o \in 1..Len(stateObj) : stateObj[o].name # q69
    /\ stateObj' = Append(stateObj, State(q69, FALSE, FALSE))
    /\ result' = Call("State", NoSel, NoSel, NoneSym, NoneSym,
                      Return(Len(stateObj) + 1))
    /\ UNCHANGED <<transObj, states, transitions, alphabets, empty_alphabet,
                   head, state_lazy_deletion, transition_lazy_deletion,
                   has_initial>>

\* TuringMachine.add_state, while fewer than limit instances exist
add_state_within(limit, is_final, is_initial) ==
    IF is_initial /\ has_initial
    THEN /\ result' = Call("add_state", BoolSel(is_initial), NoSel,
                           NoneSym, NoneSym, Raise("ValueError"))
         /\ UNCHANGED registry
    ELSE LET state_name == generate_state_name
             created_state == Len(stateObj) + 1
         IN  /\ Len(stateObj) + Len(transObj) < limit
             /\ state_lazy_deletion' = state_name.pool
             /\ stateObj' = Append(stateObj,
                                State(state_name.name, is_final, is_initial))
             /\ states' = Append(states, created_state)
             /\ head' = IF is_initial THEN created_state ELSE head
             /\ has_initial' = IF is_initial THEN TRUE ELSE has_initial
             /\ result' = Call("add_state", BoolSel(is_initial), NoSel,
                               NoneSym, NoneSym, Return(created_state))
             /\ UNCHANGED <<transObj, transitions, alphabets,
                            empty_alphabet, transition_lazy_deletion>>

\* TuringMachine.add_state
add_state(is_final, is_initial) ==
    add_state_within(MaxObjects, is_final, is_initial)

\* delete_state taking the state out of the list instead of flagging it
delete_state_removing(state) ==
    LET r == delete_state_target(state)
        deleted_state == r.ret
        at == CHOOSE k \in 1..Len(states) : states[k] = deleted_state
    IN  /\ result' = Call("delete_state", state, NoSel, NoneSym, NoneSym, r)
        /\ IF r.outcome # "ok" THEN UNCHANGED registry
           ELSE /\ states' = [k \in 1..(Len(states) - 1) |->
                                 IF k < at THEN states[k] ELSE states[k + 1]]
                /\ state_lazy_deletion' =
                       Append(state_lazy_deletion, stateObj[deleted_state].name)
                /\ UNCHANGED <<stateObj, transObj, transitions, alphabets,
                               empty_alphabet, head, transition_lazy_deletion,
                               has_initial>>

\* TuringMachine.delete_state
delete_state(state) ==
    LET r == delete_state_target(state)
        deleted_state == r.ret
    IN  /\ result' = Call("delete_state", state, NoSel, NoneSym, NoneSym, r)
        /\ IF r.outcome # "ok" THEN UNCHANGED registry
           ELSE /\ stateObj' = [stateObj EXCEPT
                                  ![deleted_state].lazy_deleted = TRUE]
                /\ state_lazy_deletion' =
                       Append(state_lazy_deletion, stateObj[deleted_state].name)
                /\ UNCHANGED <<transObj, states, transitions, alphabets,
                               empty_alphabet, head, transition_lazy_deletion,
                               has_initial>>

\* the setter without lines 285-286: the previous head keeps its flag
set_initial_state_no_demotion(value) ==
    LET r == initial_state_target(value)
        target_state == r.ret
    IN  /\ result' = Call("initial_state", value, NoSel, NoneSym, NoneSym, r)
        /\ IF r.outcome # "ok" THEN UNCHANGED registry
           ELSE /\ head' = target_state
                /\ stateObj' = [stateObj EXCEPT ![target_state].is_initial = TRUE]
                /\ UNCHANGED <<transObj, states, transitions, alphabets,
                               empty_alphabet, state_lazy_deletion,
                               transition_lazy_deletion, has_initial>>

\* TuringMachine.initial_state setter
set_initial_state(value) ==
    LET r == initial_state_target(value)
        target_state == r.ret
        demoted == IF head # None
                   THEN [stateObj EXCEPT ![head].is_initial = FALSE]
                   ELSE stateObj
    IN  /\ result' = Call("initial_state", value, NoSel, NoneSym, NoneSym, r)
        /\ IF r.outcome # "ok" THEN UNCHANGED registry
           ELSE /\ head' = target_state
                /\ stateObj' = [demoted EXCEPT ![target_state].is_initial = TRUE]
                /\ UNCHANGED <<transObj, states, transitions, alphabets,
                               empty_alphabet, state_lazy_deletion,
                               transition_lazy_deletion, has_initial>>

\* a call of TuringMachine.get_state by the caller
GetState(state) ==
    /\ result' = Call("get_state", state, NoSel, NoneSym, NoneSym,
                      get_state(state))
    /\ UNCHANGED registry

\* a call of TuringMachine.get_transition by the caller
GetTransition(transition) ==
    /\ result' = Call("get_transition", transition, NoSel, NoneSym, NoneSym,
                      get_transition(transition))
    /\ UNCHANGED registry

\* add_transition, lines 309-321: the State an endpoint argument denotes
endpoint(state) ==
    IF state.kind \in {"str", "int"} THEN get_state(state)
    ELSE IF state.kind = "State" THEN Return(state.i)
    ELSE Raise("TypeError")

\* add_transition, lines 299-324: everything that can raise
add_transition_check(source_state, destination_state, read, write, move) ==
    IF read # NoneSym /\ read \notin alphabets THEN Raise("ValueError")
    ELSE IF write # NoneSym /\ write \notin alphabets THEN Raise("ValueError")
    ELSE IF endpoint(source_state).outcome # "ok" THEN endpoint(source_state)
    ELSE IF endpoint(destination_state).outcome # "ok"
         THEN endpoint(destination_state)
    ELSE IF move \notin Direction THEN Raise("TypeError")
    ELSE Return(None)

\* add_transition generating the name (a pop of the pool) before it validates
add_transition_name_first(source_state, destination_state, read, write, move) ==
    LET r == add_transition_check(source_state, destination_state,
                                  read, write, move)
        src == endpoint(source_state).ret
        dst == endpoint(destination_state).ret
        rd == IF read = NoneSym THEN empty_alphabet ELSE read
        wr == IF write = NoneSym THEN empty_alphabet ELSE write
        transition_name == generate_transition_name
        new_transition == Len(transObj) + 1
    IN  IF r.outcome # "ok"
        THEN /\ result' = Call("add_transition", source_state,
                               destination_state, read, write, r)
             /\ transition_lazy_deletion' = transition_name.pool
             /\ UNCHANGED <<stateObj, transObj, states, transitions, alphabets,
                            empty_alphabet, head, state_lazy_deletion,
                            has_initial>>
        ELSE /\ Len(stateObj) + Len(transObj) < MaxObjects
             /\ transition_lazy_deletion' = transition_name.pool
             /\ transObj' = Append(transObj,
                    Transition(transition_name.name, rd, wr, move, src, dst))
             /\ stateObj' = [stateObj EXCEPT ![src].transitions =
                                Append(@, new_transition)]
             /\ transitions' = Append(transitions, new_transition)
             /\ result' = Call("add_transition", source_state,
                               destination_state, read, write,
                               Return(new_transition))
             /\ UNCHANGED <<states, alphabets, empty_alphabet, head,
                            state_lazy_deletion, has_initial>>

\* add_transition forgetting the source state's outgoing list
add_transition_unlinked(source_state, destination_state, read, write, move) ==
    LET r == add_transition_check(source_state, destination_state,
                                  read, write, move)
        src == endpoint(source_state).ret
        dst == endpoint(destination_state).ret
        rd == IF read = NoneSym THEN empty_alphabet ELSE read
        wr == IF write = NoneSym THEN empty_alphabet ELSE write
        transition_name == generate_transition_name
        new_transition == Len(transObj) + 1
    IN  IF r.outcome # "ok"
        THEN /\ result' = Call("add_transition", source_state,
                               destination_state, read, write, r)
             /\ UNCHANGED registry
        ELSE /\ Len(stateObj) + Len(transObj) < MaxObjects
             /\ transition_lazy_deletion' = transition_name.pool
             /\ transObj' = Append(transObj,
                    Transition(transition_name.name, rd, wr, move, src, dst))
             /\ transitions' = Append(transitions, new_transition)
             /\ result' = Call("add_transition", source_state,
                               destination_state, read, write,
                               Return(new_transition))
             /\ UNCHANGED <<stateObj, states, alphabets, empty_alphabet, head,
                            state_lazy_deletion, has_initial>>

\* TuringMachine.add_transition
add_transition(source_state, destination_state, read, write, move) ==
    LET r == add_transition_check(source_state, destination_state,
                                  read, write, move)
        src == endpoint(source_state).ret
        dst == endpoint(destination_state).ret
        rd == IF read = NoneSym THEN empty_alphabet ELSE read
        wr == IF write = NoneSym THEN empty_alphabet ELSE write
        transition_name == generate_transition_name
        new_transition == Len(transObj) + 1
    IN  IF r.outcome # "ok"
        THEN /\ result' = Call("add_transition", source_state,
                               destination_state, read, write, r)
             /\ UNCHANGED registry
        ELSE /\ Len(stateObj) + Len(transObj) < MaxObjects
             /\ transition_lazy_deletion' = transition_name.pool
             /\ transObj' = Append(transObj,
                    Transition(transition_name.name, rd, wr, move, src, dst))
             /\ stateObj' = [stateObj EXCEPT ![src].transitions =
                                Append(@, new_transition)]
             /\ transitions' = Append(transitions, new_transition)
             /\ result' = Call("add_transition", source_state,
                               destination_state, read, write,
                               Return(new_transition))
             /\ UNCHANGED <<states, alphabets, empty_alphabet, head,
                            state_lazy_deletion, has_initial>>

\* delete_transition, lines 335-344: isinstance(transition, transition)
\* raises TypeError for every argument that is neither str nor int
delete_transition_target(transition) ==
    IF transition.kind \in {"str", "int"} THEN get_transition(transition)
    ELSE Raise("TypeError")

\* TuringMachine.delete_transition
delete_transition(transition) ==
    LET r == delete_transition_target(transition)
        deleted_transition == r.ret
    IN  /\ result' = Call("delete_transition", transition, NoSel,
                          NoneSym, NoneSym, r)
        /\ IF r.outcome # "ok" THEN UNCHANGED registry
           ELSE /\ transObj' = [transObj EXCEPT
                                  ![deleted_transition].lazy_deleted = TRUE]
                /\ transition_lazy_deletion' =
                       Append(transition_lazy_deletion,
                              transObj[deleted_transition].name)
                /\ UNCHANGED <<stateObj, states, transitions, alphabets,
                               empty_alphabet, head, state_lazy_deletion,
                               has_initial>>

\* TuringMachine.clear: self.__init__(self.__alphabets), default blank "~"
clear ==
    /\ states' = <<>>
    /\ transitions' = <<>>
    /\ alphabets' = alphabets \cup {"~"}
    /\ head' = None
    /\ state_lazy_deletion' = <<>>
    /\ transition_lazy_deletion' = <<>>
    /\ has_initial' = FALSE
    /\ empty_alphabet' = "~"
    /\ result' = Call("clear", NoSel, NoSel, NoneSym, NoneSym, Return(None))
    /\ UNCHANGED <<stateObj, transObj>>

\* the calls on the state registry
Next ==
    \/ ConstructState
           /\ UNCHANGED tape
    \/ \E flags \in FlagInputs : add_state(flags[1], flags[2])
           /\ UNCHANGED tape
    \/ \E state \in StateSelectors : delete_state(state)
           /\ UNCHANGED tape
    \/ \E value \in StateSelectors : set_initial_state(value)
           /\ UNCHANGED tape
    \/ \E state \in StateSelectors : GetState(state)
           /\ UNCHANGED tape
    \/ clear
           /\ UNCHANGED tape

Spec == Init /\ [][Next]_vars

\* every call of the registry, transitions included
NextTransitions ==
    \/ ConstructState
           /\ UNCHANGED tape
    \/ \E is_initial \in BOOLEAN : add_state(FALSE, is_initial)
           /\ UNCHANGED tape
    \/ \E state \in FewStateSelectors : delete_state(state)
           /\ UNCHANGED tape
    \/ \E value \in FewStateSelectors : set_initial_state(value)
           /\ UNCHANGED tape
    \/ \E state \in FewStateSelectors : GetState(state)
           /\ UNCHANGED tape
    \/ \E transition \in TransitionSelectors : GetTransition(transition)
           /\ UNCHANGED tape
    \/ \E a \in AddTransitionInputs :
           add_transition(a[1], a[2], a[3], a[4], a[5])
           /\ UNCHANGED tape
    \/ \E transition \in TransitionSelectors : delete_transition(transition)
           /\ UNCHANGED tape

SpecTransitions == Init /\ [][NextTransitions]_vars

\* selectors of the states that exist: index, name, reference
NamedStateSelectors ==
    {IntSel(i) : i \in 0..(MaxNamedStates - 1)}
    \cup {StrSel(n) : n \in StateNames}
    \cup {StateSel(o) : o \in 1..Len(stateObj)}

\* add_state and delete_state only, in every order
NextNames ==
    \/ add_state_within(MaxNamedStates, FALSE, FALSE)
           /\ UNCHANGED tape
    \/ \E state \in NamedStateSelectors : delete_state(state)
           /\ UNCHANGED tape

SpecNames == Init /\ [][NextNames]_vars

\* states and transitions added and deleted, and clear, for either blank
NextClear ==
    \/ \E is_initial \in BOOLEAN : add_state(FALSE, is_initial)
           /\ UNCHANGED tape
    \/ delete_state(IntSel(0))
           /\ UNCHANGED tape
    \/ \E read \in {NoneSym, "_"} :
           add_transition(IntSel(0), IntSel(0), read, "a", "R")
           /\ UNCHANGED tape
    \/ delete_transition(IntSel(0))
           /\ UNCHANGED tape
    \/ clear
           /\ UNCHANGED tape

SpecClear == InitAnyBlank /\ [][NextClear]_vars

\* --------------------------------------------------------------------- Tape
\* GrowingList.default_value of both halves of Tape("~")
default_value == "~"

\* GrowingList.__getitem__, for the i >= 0 that Tape passes
GrowingList_getitem(lst, i) ==
    IF i < Len(lst) THEN lst[i + 1] ELSE default_value

\* GrowingList.__setitem__: the list afterwards
GrowingList_setitem(lst, i, v) ==
    LET extended ==
            IF i >= Len(lst)
            THEN lst \o [k \in 1..(i + 1 - Len(lst)) |-> default_value]
            ELSE lst
    IN  [extended EXCEPT ![i + 1] = v]

\* Tape.__getitem__
Tape_getitem(i) ==
    IF i >= 0 THEN GrowingList_getitem(positive_list, i)
    ELSE GrowingList_getitem(negative_list, -i - 1)

\* Tape.peek
peek == Tape_getitem(pointer)

\* outcome of a call of the tape
TapeCall(op, i, v, outcome, ret) ==
    [op |-> op, i |-> i, v |-> v, outcome |-> outcome, ret |-> ret]

\* offsets written, offsets read (some beyond every grown cell), symbols
WriteOffsets == -MaxOffset..MaxOffset
ReadOffsets == (-MaxOffset - 1)..(MaxOffset + 1)
TapeSymbols == {"a", "b"}
\* directions: the three members of Direction, and a value that is none
TapeMoveInputs == Direction \cup {"up"}

\* Tape.__setitem__ with -i for -i-1 in the negative half
Tape_setitem_off_by_one(i, v) ==
    /\ IF i >= 0
       THEN /\ positive_list' = GrowingList_setitem(positive_list, i, v)
            /\ UNCHANGED negative_list
       ELSE /\ negative_list' = GrowingList_setitem(negative_list, -i, v)
            /\ UNCHANGED positive_list
    /\ written' = written \cup {i}
    /\ tape_result' = TapeCall("setitem", i, v, "ok", NoneSym)
    /\ UNCHANGED <<pointer, registry, result>>

\* Tape.__setitem__: tape[i] = v
Tape_setitem(i, v) ==
    /\ IF i >= 0
       THEN /\ positive_list' = GrowingList_setitem(positive_list, i, v)
            /\ UNCHANGED negative_list
       ELSE /\ negative_list' = GrowingList_setitem(negative_list, -i - 1, v)
            /\ UNCHANGED positive_list
    /\ written' = written \cup {i}
    /\ tape_result' = TapeCall("setitem", i, v, "ok", NoneSym)
    /\ UNCHANGED <<pointer, registry, result>>

\* a read by index: tape[i]
GetItem(i) ==
    /\ tape_result' = TapeCall("getitem", i, NoneSym, "ok", Tape_getitem(i))
    /\ UNCHANGED <<positive_list, negative_list, pointer, written,
                   registry, result>>

\* a call of Tape.peek
Peek ==
    /\ tape_result' = TapeCall("peek", pointer, NoneSym, "ok", peek)
    /\ UNCHANGED <<positive_list, negative_list, pointer, written,
                   registry, result>>

\* Tape.move extending the non-negative half on a move to the left
Tape_move_extends_other_half(direction) ==
    /\ IF direction = "L"
       THEN /\ pointer > -MaxOffset
            /\ positive_list' =
                   IF pointer - 1 < -Len(negative_list)
                   THEN Append(positive_list, default_value)
                   ELSE positive_list
            /\ pointer' = pointer - 1
            /\ UNCHANGED negative_list
            /\ tape_result' = TapeCall("move", 0, direction, "ok", NoneSym)
       ELSE IF direction = "R"
       THEN /\ pointer < MaxOffset
            /\ positive_list' =
                   IF pointer + 1 >= Len(positive_list)
                   THEN Append(positive_list, default_value)
                   ELSE positive_list
            /\ pointer' = pointer + 1
            /\ UNCHANGED negative_list
            /\ tape_result' = TapeCall("move", 0, direction, "ok", NoneSym)
       ELSE IF direction = "S"
       THEN /\ UNCHANGED <<positive_list, negative_list, pointer>>
            /\ tape_result' = TapeCall("move", 0, direction, "ok", NoneSym)
       ELSE /\ UNCHANGED <<positive_list, negative_list, pointer>>
            /\ tape_result' =
                   TapeCall("move", 0, direction, "ValueError", NoneSym)
    /\ UNCHANGED <<written, registry, result>>

\* Tape.move
Tape_move(direction) ==
    /\ IF direction = "L"
       THEN /\ pointer > -MaxOffset
            /\ negative_list' =
                   IF pointer - 1 < -Len(negative_list)
                   THEN Append(negative_list, default_value)
                   ELSE negative_list
            /\ pointer' = pointer - 1
            /\ UNCHANGED positive_list
            /\ tape_result' = TapeCall("move", 0, direction, "ok", NoneSym)
       ELSE IF direction = "R"
       THEN /\ pointer < MaxOffset
            /\ positive_list' =
                   IF pointer + 1 >= Len(positive_list)
                   THEN Append(positive_list, default_value)
                   ELSE positive_list
            /\ pointer' = pointer + 1
            /\ UNCHANGED negative_list
            /\ tape_result' = TapeCall("move", 0, direction, "ok", NoneSym)
       ELSE IF direction = "S"
       THEN /\ UNCHANGED <<positive_list, negative_list, pointer>>
            /\ tape_result' = TapeCall("move", 0, direction, "ok", NoneSym)
       ELSE /\ UNCHANGED <<positive_list, negative_list, pointer>>
            /\ tape_result' =
                   TapeCall("move", 0, direction, "ValueError", NoneSym)
    /\ UNCHANGED <<written, registry, result>>

\* the calls on a tape
NextTape ==
    \/ \E i \in WriteOffsets, v \in TapeSymbols : Tape_setitem(i, v)
    \/ \E i \in ReadOffsets : GetItem(i)
    \/ Peek
    \/ \E direction \in TapeMoveInputs : Tape_move(direction)

SpecTape == Init /\ [][NextTape]_vars

\* ------------------------------------------------------ vocabulary of claims
\* the numbers a name or an index may carry in the properties below
NumberRange == -9..99

\* the decimal numeral of a number of NumberRange
Numeral(n) ==
    IF n < 0 THEN <<"-", Digits[1 - n]>>
    ELSE IF n < 10 THEN <<Digits[n + 1]>>
    ELSE <<Digits[(n \div 10) + 1], Digits[(n % 10) + 1]>>

\* the names q<n> and t<n>
StateNameOf == [n \in NumberRange |-> <<"q">> \o Numeral(n)]
TransitionNameOf == [n \in NumberRange |-> <<"t">> \o Numeral(n)]

\* the number a name carries: the inverse of a table of names
NumberOf(names) ==
    [name \in {names[n] : n \in NumberRange} |->
        CHOOSE n \in NumberRange : names[n] = name]
StateNumberOf == NumberOf(StateNameOf)
TransitionNumberOf == NumberOf(TransitionNameOf)

\* the numbers n such that the selector is the name of n or the index n
Numbers(sel, numberOf) ==
    IF sel.kind = "int" THEN {sel.i}
    ELSE IF sel.kind = "str" /\ sel.s \in DOMAIN numberOf
    THEN {numberOf[sel.s]}
    ELSE {}

\* the selector is the name of n or the integer index n
HasNumber(sel, numberOf, n) == n \in Numbers(sel, numberOf)

\* a string that is not the prefix followed by an integer
Malformed(sel, numberOf) == sel.kind = "str" /\ Numbers(sel, numberOf) = {}

\* the State instance o is in the registry's list and not soft-deleted
ActiveState(o) == Contains(states, o) /\ ~stateObj[o].lazy_deleted

\* the rules of 4.1: the selector resolves to the active state o
Resolves(sel, o) ==
    /\ ActiveState(o)
    /\ \/ sel = StateSel(o)
       \/ \E n \in 0..(Len(states) - 1) :
              HasNumber(sel, StateNumberOf, n) /\ states[n + 1] = o

\* the digits at the end of a name
NumericSuffix(name) ==
    LET starts == {k \in 1..(Len(name) + 1) :
                       \A j \in k..Len(name) : IsDigit(name[j])}
        first == CHOOSE k \in starts : \A m \in starts : k <= m
    IN  SubSeq(name, first, Len(name))

\* -------------------------------------------------------------------- C1
\* C1: the name of a newly added state is q<s>, s the numeric suffix at the
\* front of the free-name pool (which is then removed), and q<n>, n the
\* number of states created, when the pool is empty.
C1_NewStateName ==
    [][(result'.op = "add_state" /\ result'.outcome = "ok")
       => /\ stateObj'[result'.ret].name =
                 IF state_lazy_deletion # <<>>
                 THEN <<"q">> \o NumericSuffix(Head(state_lazy_deletion))
                 ELSE StateNameOf[Len(states)]
          /\ state_lazy_deletion # <<>>
                 => state_lazy_deletion' = Tail(state_lazy_deletion)]_vars

\* -------------------------------------------------------------------- C2
\* C2: a state of the registry has is_initial = true if and only if it is
\* the registry's head.
C2_InitialIffHead ==
    \A k \in 1..Len(states) :
        stateObj[states[k]].is_initial <=> head = states[k]

\* -------------------------------------------------------------------- C3
\* C3: add_state(is_initial=true) on a machine whose initial_state getter
\* returns a state fails with ValueError and changes nothing.
C3_DuplicateInitial ==
    [][(result'.op = "add_state" /\ result'.sel = BoolSel(TRUE)
            /\ initial_state # None)
       => (result'.outcome = "ValueError" /\ UNCHANGED registry)]_vars

\* -------------------------------------------------------------------- C4
\* the selector is s's name, s's index or a reference to s
Selects(sel, s) ==
    \/ sel = StrSel(stateObj[s].name)
    \/ sel = StateSel(s)
    \/ sel.kind = "int" /\ sel.i \in 0..(Len(states) - 1)
           /\ states[sel.i + 1] = s

\* C4: once a state s has been deleted, every delete_state call that
\* selects s, by name, index or reference, fails with AttributeError.
C4_SecondDeleteNotFound ==
    [][\A s \in 1..Len(stateObj) :
           (Contains(states, s) /\ stateObj[s].lazy_deleted
                /\ result'.op = "delete_state" /\ Selects(result'.sel, s))
           => result'.outcome = "AttributeError"]_vars

\* -------------------------------------------------------------------- C5
\* C5: assigning initial_state a selector that resolves to an active state
\* T succeeds; afterwards T.is_initial is true, a previous head other than
\* T has is_initial false, and the getter returns T.
C5_SetInitialState ==
    [][\A T \in 1..Len(stateObj) :
           (result'.op = "initial_state" /\ Resolves(result'.sel, T))
           => /\ result'.outcome = "ok"
              /\ stateObj'[T].is_initial
              /\ (head # None /\ head # T) => ~stateObj'[head].is_initial
              /\ initial_state' = T]_vars

\* the setter has just moved the head away from a state created as initial
C5_Witness ==
    /\ result.op = "initial_state" /\ result.outcome = "ok"
    /\ result.sel.kind = "str"
    /\ head = result.ret /\ stateObj[head].is_initial
    /\ \E o \in 1..Len(stateObj) :
           /\ ActiveState(o) /\ o # head
           /\ stateObj[o].is_final /\ ~stateObj[o].is_initial

\* -------------------------------------------------------------------- C6
\* C6: a registry call that ends in an error leaves the whole registry as
\* it was: lists, flags, outgoing lists, pools, head and has_initial.
C6_ErrorsChangeNothing ==
    [][result'.outcome # "ok" => UNCHANGED registry]_vars

\* add_transition has just failed on an endpoint, with a freed transition
\* name waiting in the pool
C6_Witness ==
    /\ result.op = "add_transition" /\ result.outcome = "AttributeError"
    /\ transition_lazy_deletion # <<>>
    /\ Len(transitions) = 1

\* -------------------------------------------------------------------- C7
\* C7: how delete_state and the initial_state setter classify a selector:
\* malformed string -> ValueError; negative number -> IndexError; number at
\* or beyond the number of states, or of an inactive state -> AttributeError;
\* State that is no active member -> AttributeError; other type -> TypeError.
C7_SelectorErrors ==
    [][result'.op \in {"delete_state", "initial_state"}
       => LET sel == result'.sel
              outcome == result'.outcome
          IN  /\ Malformed(sel, StateNumberOf) => outcome = "ValueError"
              /\ \A n \in Numbers(sel, StateNumberOf) :
                     /\ n < 0 => outcome = "IndexError"
                     /\ n >= Len(states) => outcome = "AttributeError"
                     /\ (n \in 0..(Len(states) - 1)
                            /\ stateObj[states[n + 1]].lazy_deleted)
                        => outcome = "AttributeError"
              /\ (sel.kind = "State" /\ ~ActiveState(sel.i))
                     => outcome = "AttributeError"
              /\ sel.kind \notin {"str", "int", "State"}
                     => outcome = "TypeError"]_vars

\* the setter has just rejected a negative name while states exist
C7_Witness ==
    /\ result.op = "initial_state"
    /\ result.sel = StrSel(<<"q", "-", "1">>)
    /\ result.outcome = "IndexError"
    /\ \E k \in 1..Len(states) : stateObj[states[k]].lazy_deleted

\* -------------------------------------------------------------------- C8
\* C8: get_state returns a State reference that is an active member, fails
\* with AttributeError for any other State, and with TypeError for a value
\* that is neither str, int nor State.
C8_GetStateRules ==
    result.op = "get_state"
    => /\ (result.sel.kind = "State" /\ ActiveState(result.sel.i))
              => (result.outcome = "ok" /\ result.ret = result.sel.i)
       /\ (result.sel.kind = "State" /\ ~ActiveState(result.sel.i))
              => result.outcome = "AttributeError"
       /\ result.sel.kind \notin {"str", "int", "State"}
              => result.outcome = "TypeError"

\* -------------------------------------------------------------------- C9
\* C9: for an active transition at index i, get_transition("t<i>") returns
\* it and delete_transition succeeds with "t<i>", i and a reference, marks
\* it inactive and puts its suffix in the pool; a name that does not start
\* with 't' fails with ValueError.
C9_TransitionSelectors ==
    [][/\ \A i \in 0..(Len(transitions) - 1) :
              LET tr == transitions[i + 1]
                  name == TransitionNameOf[i]
              IN  ~transObj[tr].lazy_deleted
                  => /\ (result'.op = "get_transition"
                             /\ result'.sel = StrSel(name))
                        => (result'.outcome = "ok" /\ result'.ret = tr)
                     /\ (result'.op = "delete_transition"
                             /\ result'.sel \in {StrSel(name), IntSel(i),
                                                 TransitionSel(tr)})
                        => /\ result'.outcome = "ok"
                           /\ transObj'[tr].lazy_deleted
                           /\ transition_lazy_deletion' =
                                  Append(transition_lazy_deletion, Numeral(i))
       /\ (result'.op \in {"get_transition", "delete_transition"}
               /\ result'.sel.kind = "str"
               /\ ~startswith(result'.sel.s, "t"))
          => result'.outcome = "ValueError"]_vars

\* -------------------------------------------------------------------- C10
\* an endpoint that denotes a soft-deleted state or a State outside the list
DeadEndpoint(sel) ==
    \/ sel.kind = "State" /\ ~ActiveState(sel.i)
    \/ \E n \in 0..(Len(states) - 1) :
           HasNumber(sel, StateNumberOf, n) /\ stateObj[states[n + 1]].lazy_deleted

\* C10: add_transition with valid symbols whose source or destination
\* denotes a soft-deleted state or a State that is not in the registry
\* fails with AttributeError and creates no transition.
C10_EndpointsMustBeActive ==
    [][(result'.op = "add_transition"
            /\ result'.read \in alphabets \cup {NoneSym}
            /\ result'.write \in alphabets \cup {NoneSym}
            /\ (DeadEndpoint(result'.sel)
                    \/ (DeadEndpoint(result'.sel2)
                            /\ \E o \in 1..Len(stateObj) :
                                   Resolves(result'.sel, o))))
       => /\ result'.outcome = "AttributeError"
          /\ transObj' = transObj
          /\ transitions' = transitions]_vars

\* -------------------------------------------------------------------- C11
\* how often x occurs in a list
Count(lst, x) == Cardinality({k \in 1..Len(lst) : lst[k] = x})

C12_HeadIffHasInitial == (head # None) <=> has_initial

\* -------------------------------------------------------------------- C13
\* the number at the end of a pool entry
SuffixNumber(entry) == StateNumberOf[<<"q">> \o NumericSuffix(entry)]

\* C13: whenever add_state reuses a freed suffix, the entry it takes, the
\* front entry of the pool, carries the smallest number of the pool.
C13_SmallestFirst ==
    [][(result'.op = "add_state" /\ result'.outcome = "ok"
            /\ state_lazy_deletion # <<>>)
       => \A k \in 1..Len(state_lazy_deletion) :
              SuffixNumber(Head(state_lazy_deletion))
                  <= SuffixNumber(state_lazy_deletion[k])]_vars

\* C13, amended: the pool is first in, first out.  A successful delete_state
\* puts the entry of the deleted state behind the entries already in the
\* pool; an add_state that reuses takes the front entry, that of the state
\* deleted earliest, and leaves the others in their order.
C13_FirstFreedFirst ==
    [][/\ (result'.op = "delete_state" /\ result'.outcome = "ok")
          => /\ Len(state_lazy_deletion') = Len(state_lazy_deletion) + 1
             /\ SubSeq(state_lazy_deletion', 1, Len(state_lazy_deletion))
                    = state_lazy_deletion
             /\ state_lazy_deletion'[Len(state_lazy_deletion')]
                    = stateObj[result'.ret].name
       /\ (result'.op = "add_state" /\ result'.outcome = "ok"
               /\ state_lazy_deletion # <<>>)
          => /\ NumericSuffix(stateObj'[result'.ret].name)
                    = NumericSuffix(Head(state_lazy_deletion))
             /\ state_lazy_deletion' = Tail(state_lazy_deletion)]_vars

\* add_state has just reused the entry freed first although an entry with a
\* smaller number is still in the pool
C13_Witness ==
    /\ result.op = "add_state" /\ result.outcome = "ok"
    /\ state_lazy_deletion # <<>>
    /\ \E k \in 1..Len(state_lazy_deletion) :
           SuffixNumber(state_lazy_deletion[k])
               < SuffixNumber(stateObj[result.ret].name)

\* -------------------------------------------------------------------- C14
\* names is the names of the members of lst that are not soft-deleted, in
\* the order in which the instances were created (identities grow with time)
NamesOfActiveInCreationOrder(names, lst, obj) ==
    LET active == {o \in 1..Len(obj) :
                       Contains(lst, o) /\ ~obj[o].lazy_deleted}
        nth(j) == CHOOSE o \in active :
                      Cardinality({m \in active : m <= o}) = j
    IN  /\ Len(names) = Cardinality(active)
        /\ \A j \in 1..Len(names) : names[j] = obj[nth(j)].name

C15_StateListStable ==
    [][result'.op \in {"add_state", "delete_state", "initial_state"}
       => /\ Len(states') >= Len(states)
          /\ \A i \in 1..Len(states) : states'[i] = states[i]]_vars

\* the first of two states has just been soft-deleted and is still in front
C15_Witness ==
    /\ result.op = "delete_state" /\ result.outcome = "ok"
    /\ Len(states) = 2
    /\ states[1] = result.ret /\ stateObj[states[1]].lazy_deleted
    /\ ~stateObj[states[2]].lazy_deleted

\* -------------------------------------------------------------------- C16
\* the offsets at which the tape is probed: further out than any grown cell
ProbeOffsets == (-MaxOffset - 3)..(MaxOffset + 3)

\* C16: after any moves and indexed writes, reading (by index, or by peek at
\* the pointer) an offset never written returns the blank; after writing v at
\* index i, reading i returns v and every other index reads as before.
C16_TapeReadsAndWrites ==
    [][/\ \A j \in ProbeOffsets :
              j \notin written' => Tape_getitem(j)' = default_value
       /\ pointer' \notin written' => peek' = default_value
       /\ tape_result'.op = "setitem"
          => \A j \in ProbeOffsets :
                 Tape_getitem(j)' = IF j = tape_result'.i
                                    THEN tape_result'.v
                                    ELSE Tape_getitem(j)
       /\ tape_result'.op = "getitem"
          => \A j \in ProbeOffsets :
                 j = tape_result'.i
                 => /\ tape_result'.ret = Tape_getitem(j)
                    /\ j \notin written => tape_result'.ret = default_value
       /\ tape_result'.op = "peek"
          => /\ tape_result'.ret = Tape_getitem(pointer)
             /\ pointer \notin written
                    => tape_result'.ret = default_value]_vars

\* "b" has just been written at -1 with the pointer elsewhere, and offset 0
\* still reads the "a" written there before
C16_Witness ==
    /\ tape_result = TapeCall("setitem", -1, "b", "ok", NoneSym)
    /\ Tape_getitem(-1) = "b" /\ Tape_getitem(0) = "a"
    /\ pointer = 1 /\ Len(negative_list) = 1

\* -------------------------------------------------------------------- C17
\* lst, or lst with one blank cell behind it
SameOrOneMoreBlank(after, before) ==
    after = before \/ after = Append(before, default_value)

\* C17: move(STAY) changes nothing; LEFT moves the pointer down by one and
\* RIGHT up by one; no move changes what is read at any index; a move never
\* shortens a half, lengthens at most one half by at most one blank cell,
\* and LEFT never lengthens the non-negative half nor RIGHT the negative.
C17_Moves ==
    [][(tape_result'.op = "move" /\ tape_result'.outcome = "ok")
       => LET direction == tape_result'.v
          IN  /\ direction = "S"
                 => UNCHANGED <<positive_list, negative_list, pointer>>
              /\ direction = "L" => pointer' = pointer - 1
              /\ direction = "R" => pointer' = pointer + 1
              /\ \A j \in ProbeOffsets : Tape_getitem(j)' = Tape_getitem(j)
              /\ SameOrOneMoreBlank(positive_list', positive_list)
              /\ SameOrOneMoreBlank(negative_list', negative_list)
              /\ positive_list' = positive_list
                     \/ negative_list' = negative_list
              /\ direction = "L" => positive_list' = positive_list
              /\ direction = "R" => negative_list' = negative_list]_vars

\* a move to the left has just extended the negative half by a blank cell,
\* next to a written cell of the non-negative half
C17_Witness ==
    /\ tape_result = TapeCall("move", 0, "L", "ok", NoneSym)
    /\ pointer = -1 /\ negative_list = <<default_value>>
    /\ Tape_getitem(1) = "a"

\* -------------------------------------------------------------------- C18
\* C18: after clear() the registry is as freshly constructed: both lists and
\* both pools empty, head none, has_initial false, and the alphabet is the
\* alphabet given at construction plus the machine's blank symbol.
C18_ClearResets ==
    result.op = "clear"
    => /\ states = <<>> /\ transitions = <<>>
       /\ state_lazy_deletion = <<>> /\ transition_lazy_deletion = <<>>
       /\ head = None /\ ~has_initial
       /\ alphabets = alphabets_argument \cup {empty_alphabet}

\* -------------------------------------------------------------------- C19
\* C19: a name is a handle for the state that carries it: for every active
\* state s, get_state(s.name) returns s, also when the name was reused.
C19_NameIsHandle ==
    \A s \in 1..Len(stateObj) :
        ActiveState(s) => get_state(StrSel(stateObj[s].name)) = Return(s)

\* -------------------------------------------------------------------- C20
\* C20: after any add_state and delete_state calls, no two active states
\* have the same name, and no entry of the free-name pool is the name of an
\* active state, neither as it stands nor with the prefix q.
C20_NamesUnique ==
    /\ \A s, t \in 1..Len(stateObj) :
           (ActiveState(s) /\ ActiveState(t) /\ s # t)
           => stateObj[s].name # stateObj[t].name
    /\ \A k \in 1..Len(state_lazy_deletion) :
           \A s \in 1..Len(stateObj) :
               ActiveState(s)
               => /\ stateObj[s].name # state_lazy_deletion[k]
                  /\ stateObj[s].name # <<"q">> \o state_lazy_deletion[k]

\* an active state carries a reused name while another freed name waits in
\* the pool
C20_Witness ==
    /\ state_lazy_deletion # <<>>
    /\ \E s, d \in 1..Len(stateObj) :
           /\ ActiveState(s) /\ stateObj[d].lazy_deleted
           /\ stateObj[s].name = <<"q">> \o stateObj[d].name

\* -------------------------------------------------------------------- C21
\* C21: the initial_state getter returns none or an active state of the
\* registry.
C21_InitialStateActive ==
    initial_state = None \/ ActiveState(initial_state)

====
